---- MODULE Spec2Model ----
(***************************************************************************)
(* Model of the MAPFM solver: the OSF tables and the OperatorFinder, the   *)
(* child construction of MAPFProblem, the EPEA* group search and the       *)
(* Independence Detection solver with its facade.                          *)
(*                                                                         *)
(* Python values: a tuple or list is a sequence (1-based here), None is    *)
(* the empty sequence and Some value v is <<v>> where a field may hold     *)
(* None, float('inf') is the number Inf, larger than every cost.           *)
(***************************************************************************)
EXTENDS Integers, Sequences, FiniteSets, TLC

VARIABLES
    pc,               \* position of the modelled run
    expanded,         \* OperatorFinder run: per agent, the unsorted (direction, df) table
    agent_operators,  \* OperatorFinder run: per agent, the OSF rows handed to the finder
    target_sum,       \* OperatorFinder run: the target handed to the finder
    finder,           \* OperatorFinder run: the finder object after find_operators (None before)
    targets,          \* OperatorFinder run: the targets used so far on these tables
    generated,        \* OperatorFinder run: joint operator -> times get_children made it
    grid,             \* Grid: width, height, walls, goals
    heuristic,        \* grid.heuristic: per color, the distance field
    osf,              \* MAPFProblem.osf: per color and cell, the OSF table
    agents,           \* the agents of the problem, in identifier order
    node,             \* node walk: the current Node (its parent reference dropped)
    time,             \* node walk: steps taken from the root
    arrived,          \* node walk: per agent, the step of its last change of cell
    upper_bound,      \* the upper_bound argument (None when absent)
    max_value,        \* IDSolver.max_value
    self_agents,      \* IDSolver.agents: the group handed to EPEAStar
    idx,              \* IDSolver.solve: position of the for loop over the agents
    groups,           \* IDSolver.solve: the groups, each (agents, cost)
    total_cost,       \* IDSolver.solve: total_cost
    cost,             \* IDSolver.cost
    paths,            \* IDSolver.paths
    path_set,         \* IDSolver.path_set: the committed paths behind its CAT
    open,             \* EPEAStar: the open set
    closed,           \* EPEAStar: the closed set, state -> best g seen
    max_cost,         \* EPEAStar.max_cost
    solution,         \* what EPEAStar.solve returned: None or (paths, cost)
    result            \* what IDSolver.solve returned: None or (paths, cost)

finderVars == <<expanded, agent_operators, target_sum, finder, targets, generated>>
problemVars == <<grid, heuristic, osf, agents>>
walkVars == <<node, time, arrived>>
idVars == <<upper_bound, max_value, self_agents, idx, groups, total_cost, cost, paths,
           path_set, result>>
searchVars == <<open, closed, max_cost, solution>>
vars == <<pc, finderVars, problemVars, walkVars, idVars, searchVars>>

----------------------------------------------------------------------------
(* Bounds *)

MaxMoves == 1       \* most move directions in a drawn table
NumOps == 3         \* agents handed to the OperatorFinder
NumAgents == 3      \* most agents of a problem
WalkAgents == 2     \* most agents of a problem in the node walk
MaxDepth == 3       \* longest node walk

----------------------------------------------------------------------------
(* Numbers *)

Inf == 1000

MinNum(a, b) == IF a < b THEN a ELSE b

None == <<>>

----------------------------------------------------------------------------
(* Directions *)

\* The df of a move is 1 + h(neighbour) - h(cell), and the distance field h
\* differs by at most 1 between neighbour cells
MoveDfs == {0, 1, 2}

MoveDirections == <<"N", "E", "S", "W">>

WAIT == "WAIT"

DirectionValue(d) ==
    CASE d = "N" -> <<0, -1>>
      [] d = "E" -> <<1, 0>>
      [] d = "S" -> <<0, 1>>
      [] d = "W" -> <<-1, 0>>
      [] OTHER -> <<0, 0>>

----------------------------------------------------------------------------
(* OSF tables: a row is <<directions, df>> *)

RECURSIVE InsertByDf(_, _)
\* list.sort(key = df) is stable: a row goes after the rows with a key <= its own
InsertByDf(sorted, row) ==
    IF sorted = <<>> THEN <<row>>
    ELSE IF row[2] < sorted[Len(sorted)][2]
         THEN Append(InsertByDf(SubSeq(sorted, 1, Len(sorted) - 1), row), sorted[Len(sorted)])
         ELSE Append(sorted, row)

RECURSIVE SortPrefix(_, _)
SortPrefix(table, n) ==
    IF n = 0 THEN <<>> ELSE InsertByDf(SortPrefix(table, n - 1), table[n])

SortByDfUnsorted(table) == table

SortByDf(table) == SortPrefix(table, Len(table))

RECURSIVE CollapseLoop(_, _, _, _, _)
CollapseLoop(table, i, osf_table, last_directions, last_df) ==
    IF i > Len(table)
    THEN Append(osf_table, <<last_directions, last_df>>)
    ELSE IF table[i][2] = last_df
         THEN CollapseLoop(table, i + 1, osf_table,
                           Append(last_directions, table[i][1]), last_df)
         ELSE CollapseLoop(table, i + 1,
                           Append(osf_table, <<last_directions, last_df>>),
                           <<table[i][1]>>, table[i][2])

collapse_osf_table_rows(table) ==
    [k \in 1..Len(table) |-> <<(<<table[k][1]>>), table[k][2]>>]

collapse_osf_table(table) ==
    IF Len(table) = 0 THEN <<>>
    ELSE CollapseLoop(table, 2, <<>>, <<table[1][1]>>, table[1][2])

\* the tail of generate_osf_table: WAIT appended, sorted, collapsed
FinishOsfTable(moves) ==
    collapse_osf_table(SortByDf(Append(moves, <<WAIT, 1>>)))

----------------------------------------------------------------------------
(* OperatorFinder *)

RECURSIVE TailSum(_, _, _)
\* the sum, over the agents after agent i, of the df of row Pick(rows)
TailSum(ops, i, first) ==
    IF i >= Len(ops) THEN 0
    ELSE (IF first THEN ops[i + 1][1][2] ELSE ops[i + 1][Len(ops[i + 1])][2])
         + TailSum(ops, i + 1, first)

MinValuesSwapped(ops) == [i \in 1..Len(ops) |-> TailSum(ops, i, FALSE)]

MinValues(ops) == [i \in 1..Len(ops) |-> TailSum(ops, i, TRUE)]

MaxValues(ops) == [i \in 1..Len(ops) |-> TailSum(ops, i, FALSE)]

OperatorFinder(target, ops) ==
    [operators |-> <<>>,
     target_sum |-> target,
     agent_operators |-> ops,
     next_target_value |-> Inf,
     min_values |-> MinValues(ops),
     max_values |-> MaxValues(ops),
     asserts |-> 0,          \* times the assertion of find_operators was evaluated
     assert_ok |-> TRUE]     \* and whether it held every time

LowerPrune(self, current_agent, current_sum) ==
    current_sum + self.min_values[current_agent] > self.target_sum

UpperPruneInclusive(self, current_agent, current_sum) ==
    current_sum + self.max_values[current_agent] <= self.target_sum

UpperPrune(self, current_agent, current_sum) ==
    current_sum + self.max_values[current_agent] < self.target_sum

RECURSIVE find_operators(_, _, _, _)
RECURSIVE FindRow(_, _, _, _, _)
\* one pass of the loop of find_operators, from row i on
FindRow(self, current_agent, i, previous_operators, previous_sum) ==
    IF i > Len(self.agent_operators[current_agent]) THEN self
    ELSE
      LET operator == self.agent_operators[current_agent][i]
          current_operators == Append(previous_operators, operator[1])
          current_sum == previous_sum + operator[2]
      IN
      IF LowerPrune(self, current_agent, current_sum)
      THEN [self EXCEPT !.next_target_value =
                MinNum(@, current_sum + self.min_values[current_agent])]
      ELSE IF current_agent = Len(self.agent_operators)
      THEN FindRow(IF current_sum = self.target_sum
                   THEN [self EXCEPT !.operators = Append(@, current_operators)]
                   ELSE self,
                   current_agent, i + 1, previous_operators, previous_sum)
      ELSE IF UpperPrune(self, current_agent, current_sum)
      THEN FindRow(self, current_agent, i + 1, previous_operators, previous_sum)
      ELSE
        LET after == find_operators(self, current_agent + 1, current_operators, current_sum)
        IN FindRow([after EXCEPT
                      !.asserts = @ + 1,
                      !.assert_ok = @ /\ after.next_target_value > after.target_sum],
                   current_agent, i + 1, previous_operators, previous_sum)

find_operators(self, current_agent, previous_operators, previous_sum) ==
    FindRow(self, current_agent, 1, previous_operators, previous_sum)

----------------------------------------------------------------------------
(* Grid, heuristic and agents. A coordinate is <<x, y>>, a goal is         *)
(* [x, y, color], an agent is [coord, color, identifier, waiting_cost].    *)

traversable_coords(g, x, y) ==
    /\ 0 <= x /\ x < g.width
    /\ 0 <= y /\ y < g.height
    /\ <<x, y>> \notin g.walls

GridCells(g) == (0..(g.width - 1)) \X (0..(g.height - 1))

CoordMove(coord, d) ==
    <<coord[1] + DirectionValue(d)[1], coord[2] + DirectionValue(d)[2]>>

GridColors(g) == { g.goals[k].color : k \in 1..Len(g.goals) }

RECURSIVE Flood(_, _, _, _)
\* breadth-first layers from the goals of one color
Flood(g, field, frontier, d) ==
    IF frontier = {} THEN field
    ELSE LET next == { c \in GridCells(g) :
                         /\ traversable_coords(g, c[1], c[2])
                         /\ field[c] = Inf
                         /\ \E k \in 1..4 : CoordMove(c, MoveDirections[k]) \in frontier }
         IN Flood(g, [c \in GridCells(g) |-> IF c \in next THEN d + 1 ELSE field[c]],
                  next, d + 1)

HeuristicField(g, color) ==
    LET start == { <<g.goals[k].x, g.goals[k].y>> :
                     k \in { j \in 1..Len(g.goals) : g.goals[j].color = color } }
    IN Flood(g, [c \in GridCells(g) |-> IF c \in start THEN 0 ELSE Inf], start, 0)

GridHeuristic(g) == [color \in GridColors(g) |-> HeuristicField(g, color)]

Agent(coord, color, identifier, waiting_cost) ==
    [coord |-> coord, color |-> color, identifier |-> identifier,
     waiting_cost |-> waiting_cost]

Node(state, costs, h, parent) ==
    [state |-> state, cost |-> costs, heuristic |-> h, delta_f |-> 0, parent |-> parent]

----------------------------------------------------------------------------
(* MAPFProblem *)

RECURSIVE ExpandedTableInGrid(_, _, _, _, _, _)
ExpandedTableInGrid(g, heur, x, y, color, k) ==
    IF k > Len(MoveDirections) THEN <<>>
    ELSE LET direction == MoveDirections[k]
             new_x == x + DirectionValue(direction)[1]
             new_y == y + DirectionValue(direction)[2]
             rest == ExpandedTableInGrid(g, heur, x, y, color, k + 1)
         IN IF <<new_x, new_y>> \in GridCells(g)
            THEN <<(<<direction, 1 + heur[color][<<new_x, new_y>>] - heur[color][<<x, y>>]>>)>>
                 \o rest
            ELSE rest

RECURSIVE ExpandedTable(_, _, _, _, _, _)
\* the loop of generate_osf_table over the move directions, from direction k on
ExpandedTable(g, heur, x, y, color, k) ==
    IF k > Len(MoveDirections) THEN <<>>
    ELSE LET direction == MoveDirections[k]
             new_x == x + DirectionValue(direction)[1]
             new_y == y + DirectionValue(direction)[2]
             rest == ExpandedTable(g, heur, x, y, color, k + 1)
         IN IF traversable_coords(g, new_x, new_y)
            THEN <<(<<direction, 1 + heur[color][<<new_x, new_y>>] - heur[color][<<x, y>>]>>)>>
                 \o rest
            ELSE rest

generate_osf_table(g, heur, x, y, color) ==
    FinishOsfTable(ExpandedTable(g, heur, x, y, color, 1))

calculate_single_color_osf(g, heur, color) ==
    [c \in GridCells(g) |->
        IF heur[color][c] # Inf THEN generate_osf_table(g, heur, c[1], c[2], color)
        ELSE <<>>]

MAPFProblemOsf(g, heur) ==
    [color \in GridColors(g) |-> calculate_single_color_osf(g, heur, color)]

on_goal(g, agent) ==
    \E k \in 1..Len(g.goals) :
       /\ g.goals[k].x = agent.coord[1]
       /\ g.goals[k].y = agent.coord[2]
       /\ g.goals[k].color = agent.color

is_solved_any(g, state) == \E i \in 1..Len(state) : on_goal(g, state[i])

is_solved(g, state) == \A i \in 1..Len(state) : on_goal(g, state[i])

RECURSIVE HeuristicSum(_, _, _)
HeuristicSum(heur, state, n) ==
    IF n = 0 THEN 0
    ELSE HeuristicSum(heur, state, n - 1) + heur[state[n].color][state[n].coord]

StateHeuristic(heur, state) == HeuristicSum(heur, state, Len(state))

ChargeLeavingOnly(g, agent, d) ==
    IF on_goal(g, agent) THEN (IF d # WAIT THEN 1 ELSE 0) ELSE 1

ChargeOnGoalOnly(g, agent, d) ==
    IF on_goal(g, agent)
    THEN (IF d # WAIT THEN agent.waiting_cost + 1 ELSE 0)
    ELSE 0

\* what an agent adds to the cost of the child
Charge(g, agent, d) ==
    IF on_goal(g, agent)
    THEN (IF d # WAIT THEN agent.waiting_cost + 1 ELSE 0)
    ELSE 1

ChildWaitingCostOnAnyWait(g, agent, d) ==
    IF d = WAIT THEN agent.waiting_cost + 1 ELSE 0

ChildWaitingCost(g, agent, d) ==
    IF on_goal(g, agent) /\ d = WAIT THEN agent.waiting_cost + 1 ELSE 0

RECURSIVE ChargeSum(_, _, _, _)
ChargeSum(g, state, operator, n) ==
    IF n = 0 THEN 0
    ELSE ChargeSum(g, state, operator, n - 1) + Charge(g, state[n], operator[n])

get_child(g, heur, parent, operator) ==
    LET child_state ==
          [i \in 1..Len(parent.state) |->
              Agent(CoordMove(parent.state[i].coord, operator[i]),
                    parent.state[i].color, parent.state[i].identifier,
                    ChildWaitingCost(g, parent.state[i], operator[i]))]
        costs == parent.cost + ChargeSum(g, parent.state, operator, Len(parent.state))
    IN Node(child_state, costs, StateHeuristic(heur, child_state), parent)

----------------------------------------------------------------------------
(* The problems: the 2 x 2 grid without a wall or with one, up to NumAgents *)
(* agents on distinct free cells, as many goals on distinct free cells,    *)
(* the goal colors a rearrangement of the agent colors. Colors are names:  *)
(* the first agent has color 0.                                            *)

Arena == [width |-> 2, height |-> 2]

Colors == {0, 1}

CellOrder == <<(<<0, 0>>), <<1, 0>>, <<0, 1>>, <<1, 1>>>>

ArenaCells == { CellOrder[k] : k \in 1..Len(CellOrder) }

RECURSIVE GoalList(_, _)
\* the goals of a coloring of cells, in cell order
GoalList(coloring, k) ==
    IF k = 0 THEN <<>>
    ELSE IF CellOrder[k] \in DOMAIN coloring
         THEN Append(GoalList(coloring, k - 1),
                     [x |-> CellOrder[k][1], y |-> CellOrder[k][2],
                      color |-> coloring[CellOrder[k]]])
         ELSE GoalList(coloring, k - 1)

Count(f, v) == Cardinality({ a \in DOMAIN f : f[a] = v })

Problems ==
    UNION { UNION { UNION {
      { [grid |-> [width |-> Arena.width, height |-> Arena.height, walls |-> walls,
                   goals |-> GoalList(coloring, Len(CellOrder))],
         agents |-> [i \in 1..n |-> Agent(cells[i], colors[i], i - 1, 0)]] :
          cells \in { f \in [1..n -> ArenaCells \ walls] :
                        \A i, j \in 1..n : i # j => f[i] # f[j] },
          colors \in { f \in [1..n -> Colors] :
                        /\ f[1] = 0
                        /\ \A v \in Colors : Count(f, v) = Count(coloring, v) } } :
        coloring \in UNION { [G -> Colors] :
                       G \in { S \in SUBSET (ArenaCells \ walls) : Cardinality(S) = n } } } :
      n \in 1..NumAgents } :
      walls \in {{}, {<<1, 1>>}} }

InitProblem ==
    /\ \E p \in Problems :
         /\ grid = p.grid
         /\ agents = p.agents
    /\ heuristic = GridHeuristic(grid)
    /\ osf = MAPFProblemOsf(grid, heuristic)
    /\ \A i \in 1..Len(agents) : heuristic[agents[i].color][agents[i].coord] < Inf

NoProblem ==
    /\ grid = None /\ heuristic = None /\ osf = None /\ agents = None

NoFinder ==
    /\ expanded = None /\ agent_operators = None /\ target_sum = 0
    /\ finder = None /\ targets = None /\ generated = None

NoWalk ==
    /\ node = None /\ time = 0 /\ arrived = None

NoSearch ==
    /\ open = {} /\ closed = None /\ max_cost = 0 /\ solution = None

NoSolver ==
    /\ upper_bound = None /\ max_value = None /\ self_agents = None /\ idx = 0
    /\ groups = None /\ total_cost = 0 /\ cost = 0 /\ paths = None /\ result = None
    /\ path_set = {}
    /\ NoSearch

----------------------------------------------------------------------------
(* The node walk: from the root, any joint operator made of directions of  *)
(* the agents' OSF tables is applied with get_child.                       *)

RECURSIVE TableDirections(_, _)
TableDirections(table, k) ==
    IF k = 0 THEN {}
    ELSE TableDirections(table, k - 1)
         \cup { table[k][1][j] : j \in 1..Len(table[k][1]) }

AgentDirections(agent) ==
    TableDirections(osf[agent.color][agent.coord], Len(osf[agent.color][agent.coord]))

RootNode(ags) == Node(ags, 0, StateHeuristic(heuristic, ags), None)

InitWalk ==
    /\ pc = "walk"
    /\ InitProblem
    /\ Len(agents) <= WalkAgents
    /\ node = RootNode(agents)
    /\ time = 0
    /\ arrived = [i \in 1..Len(agents) |-> 0]
    /\ NoFinder
    /\ NoSolver

GetChild ==
    /\ pc = "walk"
    /\ time < MaxDepth
    /\ \E operator \in [1..Len(node.state) -> {WAIT} \cup { MoveDirections[k] : k \in 1..Len(MoveDirections) }] :
         /\ \A i \in 1..Len(node.state) : operator[i] \in AgentDirections(node.state[i])
         /\ LET child == get_child(grid, heuristic, node, operator)
            IN /\ node' = [child EXCEPT !.parent = None]
               /\ arrived' = [i \in 1..Len(node.state) |->
                                IF child.state[i].coord # node.state[i].coord
                                THEN time + 1 ELSE arrived[i]]
    /\ time' = time + 1
    /\ UNCHANGED <<pc, finderVars, problemVars, idVars, searchVars>>

NextWalk == GetChild

SpecWalk == InitWalk /\ [][NextWalk]_vars

----------------------------------------------------------------------------
(* The OperatorFinder run: tables are drawn, made into OSF tables, and the  *)
(* finder is run on them for a target and then for each next target.       *)

Directions == {WAIT} \cup { MoveDirections[k] : k \in 1..Len(MoveDirections) }

\* the joint operators of n agents: one direction each
JointOperators(n) == [1..n -> Directions]

RECURSIVE ProductCount(_, _, _)
\* the times itertools.product(*operator) yields the joint operator, over
\* the first n agents
ProductCount(operator, joint, n) ==
    IF n = 0 THEN 1
    ELSE ProductCount(operator, joint, n - 1)
         * Cardinality({ k \in 1..Len(operator[n]) : operator[n][k] = joint[n] })

RECURSIVE ExpandedCount(_, _, _)
\* the times the joint operator is added to expanded_operators by the first
\* k operators of the finder
ExpandedCount(operators, joint, k) ==
    IF k = 0 THEN 0
    ELSE ExpandedCount(operators, joint, k - 1)
         + ProductCount(operators[k], joint, Len(joint))

ExpandedOperatorCountsFirst(operator_finder) ==
    [joint \in JointOperators(Len(operator_finder.agent_operators)) |->
        Cardinality({ k \in 1..Len(operator_finder.operators) :
                        \A i \in 1..Len(joint) :
                           operator_finder.operators[k][i][1] = joint[i] })]

\* expanded_operators of get_children, as joint operator -> times in the list
ExpandedOperatorCounts(operator_finder) ==
    [joint \in JointOperators(Len(operator_finder.agent_operators)) |->
        ExpandedCount(operator_finder.operators, joint, Len(operator_finder.operators))]

RECURSIVE MoveTables(_)
\* the (direction, df) lists over the first k move directions
MoveTables(k) ==
    IF k = 0 THEN {<<>>}
    ELSE MoveTables(k - 1) \cup
         { Append(t, <<MoveDirections[k], df>>) :
             t \in { u \in MoveTables(k - 1) : Len(u) = k - 1 }, df \in MoveDfs }

InitFinder ==
    /\ pc = "tables"
    /\ expanded \in [1..NumOps -> MoveTables(MaxMoves)]
    /\ agent_operators = <<>>
    /\ target_sum = 0          \* the delta_f of a new node
    /\ finder = None
    /\ targets = <<>>
    /\ generated = [joint \in JointOperators(NumOps) |-> 0]
    /\ NoProblem
    /\ NoWalk
    /\ NoSolver

GenerateTables ==
    /\ pc = "tables"
    /\ agent_operators' = [i \in 1..NumOps |-> FinishOsfTable(expanded[i])]
    /\ pc' = "find"
    /\ UNCHANGED <<expanded, target_sum, finder, targets, generated, problemVars, walkVars, idVars, searchVars>>

FindOperators ==
    /\ pc = "find"
    /\ LET operator_finder ==
             find_operators(OperatorFinder(target_sum, agent_operators), 1, <<>>, 0)
       IN /\ finder' = <<operator_finder>>
          /\ generated' = [joint \in DOMAIN generated |->
                             generated[joint] + ExpandedOperatorCounts(operator_finder)[joint]]
    /\ targets' = Append(targets, target_sum)
    /\ pc' = "found"
    /\ UNCHANGED <<expanded, agent_operators, target_sum, problemVars, walkVars, idVars, searchVars>>

\* the caller's re-insertion: the next target replaces the target
NextTarget ==
    /\ pc = "found"
    /\ finder[1].next_target_value < Inf
    /\ target_sum' = finder[1].next_target_value
    /\ pc' = "find"
    /\ UNCHANGED <<expanded, agent_operators, finder, targets, generated, problemVars, walkVars, idVars, searchVars>>

NextFinder == GenerateTables \/ FindOperators \/ NextTarget

SpecFinder == InitFinder /\ [][NextFinder]_vars

\* the position a step of NextFinder leads to, None when no step is enabled
NextPc ==
    IF pc = "tables" THEN <<"find">>
    ELSE IF pc = "find" THEN <<"found">>
    ELSE IF pc = "found" /\ finder[1].next_target_value < Inf THEN <<"find">>
    ELSE None

\* a step of the run seen through pc alone: it is enabled exactly when
\* NextFinder is, and the steps of NextFinder are the steps that change pc
Advance == NextPc # None /\ pc' = NextPc[1]

\* get_children and the caller's re-insertion are straight-line code of one
\* thread: the run goes on while a step is enabled
SpecFinderFair == SpecFinder /\ WF_pc(Advance)

----------------------------------------------------------------------------
(* MAPFProblem: expansion of a node *)

RECURSIVE Product(_, _)
\* itertools.product(*operator) over the first n agents, as a set
Product(operator, n) ==
    IF n = 0 THEN {<<>>}
    ELSE { Append(p, operator[n][k]) :
             p \in Product(operator, n - 1), k \in 1..Len(operator[n]) }

\* the children as a set (their order in the list is not modelled), and the
\* next delta_f of the parent
get_children(g, heur, tables, parent, v) ==
    LET operator_finder ==
          find_operators(
             OperatorFinder(v, [i \in 1..Len(parent.state) |->
                                   tables[parent.state[i].color][parent.state[i].coord]]),
             1, <<>>, 0)
        expanded_operators ==
          UNION { Product(operator_finder.operators[k], Len(parent.state)) :
                    k \in 1..Len(operator_finder.operators) }
    IN [children |-> { get_child(g, heur, parent, operator) :
                         operator \in expanded_operators },
        next_value |-> operator_finder.next_target_value]

VertexConflict(child) ==
    \E i, j \in 1..Len(child.state) :
       i < j /\ child.state[i].coord = child.state[j].coord

EdgeConflictOneWay(parent, child) ==
    \E i, j \in 1..Len(parent.state) :
       i < j /\ child.state[i].coord = parent.state[j].coord

EdgeConflictIgnored(parent, child) == FALSE

EdgeConflict(parent, child) ==
    \E i, j \in 1..Len(parent.state) :
       /\ i < j
       /\ child.state[i].coord = parent.state[j].coord
       /\ child.state[j].coord = parent.state[i].coord

expand(g, heur, tables, n) ==
    LET got == get_children(g, heur, tables, n, n.delta_f)
    IN [children |-> { child \in got.children :
                         ~VertexConflict(child) /\ ~EdgeConflict(n, child) },
        next_value |-> got.next_value]

----------------------------------------------------------------------------
(* Path and EPEAStar *)

F(n) == n.cost + n.heuristic + n.delta_f

\* the nodes the priority queue may hand out: least f, then highest g; the
\* order among these (insertion order, CAT hits) is left open
Best(nodes) ==
    { n \in nodes :
        /\ \A m \in nodes : F(n) <= F(m)
        /\ \A m \in nodes : F(m) = F(n) => m.cost <= n.cost }

RECURSIVE Chain(_)
\* the states from the root to the node, along the parent references
Chain(n) == IF n.parent = None THEN <<n.state>> ELSE Append(Chain(n.parent), n.state)

Path(identifier, coords) == [identifier |-> identifier, coords |-> coords]

\* the paths of a goal node, one per agent of the group, in the group's order
Reconstruct(n) ==
    LET chain == Chain(n)
    IN [i \in 1..Len(n.state) |->
          Path(n.state[i].identifier, [t \in 1..Len(chain) |-> chain[t][i].coord])]

\* the coordinate of a path at step t (1-based), extended by its last one
At(path, t) ==
    IF t <= Len(path.coords) THEN path.coords[t] ELSE path.coords[Len(path.coords)]

MaxNum(a, b) == IF a > b THEN a ELSE b

conflicts(p, q) ==
    \E t \in 1..MaxNum(Len(p.coords), Len(q.coords)) :
       \/ At(p, t) = At(q, t)
       \/ /\ At(p, t) = At(q, t + 1)
          /\ At(q, t) = At(p, t + 1)

\* the open set after pushing nodes: a node with f > max_cost is not enqueued
Enqueue(nodes, new, bound) == nodes \cup { n \in new : F(n) <= bound }

\* the children that are not dominated in the closed set
Fresh(children, seen) ==
    { c \in children : c.state \notin DOMAIN seen \/ c.cost < seen[c.state] }

\* the closed set after these children are recorded
Record(seen, fresh) ==
    [s \in DOMAIN seen \cup { c.state : c \in fresh } |->
        IF \E c \in fresh : c.state = s
        THEN (CHOOSE c \in fresh : c.state = s).cost
        ELSE seen[s]]

\* bounds on a plain number or Inf
Minus(a, b) == IF a = Inf THEN Inf ELSE a - b

Plus(a, b) == IF a = Inf THEN Inf ELSE a + b

----------------------------------------------------------------------------
(* Independence Detection *)

ConflictPairsAdjacent(ps) ==
    { p \in (1..Len(ps)) \X (1..Len(ps)) : p[2] = p[1] + 1 /\ conflicts(ps[p[1]], ps[p[2]]) }

\* the index pairs i < j of conflicting paths
ConflictPairs(ps) ==
    { p \in (1..Len(ps)) \X (1..Len(ps)) : p[1] < p[2] /\ conflicts(ps[p[1]], ps[p[2]]) }

find_conflict(ps) ==
    IF ConflictPairs(ps) = {} THEN None
    ELSE LET p == CHOOSE p \in ConflictPairs(ps) :
                     \A q \in ConflictPairs(ps) :
                        p[1] < q[1] \/ (p[1] = q[1] /\ p[2] <= q[2])
         IN <<ps[p[1]].identifier, ps[p[2]].identifier>>

\* merge_groups, the inner loop on one group: the identifier, a or b, that
\* the loop meets first among the group's agents (None if it meets neither)
FirstHit(group, a, b) ==
    LET hits == { i \in 1..Len(group[1]) : group[1][i].identifier \in {a, b} }
    IN IF hits = {} THEN None
       ELSE <<group[1][CHOOSE i \in hits : \A j \in hits : i <= j].identifier>>

\* merge_groups, the outer loop: the index of the last group whose first hit
\* is the identifier (0 for None)
Locate(gs, a, b, identifier) ==
    LET found == { i \in 1..Len(gs) : FirstHit(gs[i], a, b) = <<identifier>> }
    IN IF found = {} THEN 0 ELSE CHOOSE i \in found : \A j \in found : i >= j

RemoveNothing(seq, x) == seq

\* list.remove: the list without its first element equal to x
Remove(seq, x) ==
    LET k == CHOOSE i \in 1..Len(seq) : seq[i] = x /\ \A j \in 1..(i - 1) : seq[j] # x
    IN [i \in 1..(Len(seq) - 1) |-> IF i < k THEN seq[i] ELSE seq[i + 1]]

AssignPathsSortedIds(ps, new_agents, group_paths) ==
    [k \in 1..Len(ps) |->
        IF \E i \in 1..Len(new_agents) : new_agents[i].identifier + 1 = k
        THEN group_paths[Cardinality({ j \in 1..Len(new_agents) :
                                         new_agents[j].identifier + 1 <= k })]
        ELSE ps[k]]

\* merge_groups, its last loop: self.paths[agent.identifier] = path
AssignPaths(ps, new_agents, group_paths) ==
    [k \in 1..Len(ps) |->
        IF \E i \in 1..Len(new_agents) : new_agents[i].identifier + 1 = k
        THEN group_paths[CHOOSE i \in 1..Len(new_agents) : new_agents[i].identifier + 1 = k]
        ELSE ps[k]]

CostWithoutA(total, group_a, group_b) == total - group_a[2]

\* merge_groups: self.cost -= group_a[1] + group_b[1]
CostWithout(total, group_a, group_b) == total - (group_a[2] + group_b[2])

NewAgentsOnlyA(group_a, group_b) == group_a[1]

\* merge_groups: new_agents = group_a[0] + group_b[0]
NewAgents(group_a, group_b) == group_a[1] \o group_b[1]

\* PathSet.update: the paths are added to the committed ones
update(committed, new_paths) == committed \cup { new_paths[i] : i \in 1..Len(new_paths) }

\* EPEAStar(problem, agents, cats, max_cost): the root is pushed
StartSearch(group, bound) ==
    /\ max_cost' = bound
    /\ open' = Enqueue({}, {RootNode(group)}, bound)
    /\ closed' = (group :> 0)
    /\ solution' = None

----------------------------------------------------------------------------
(* The solver run: an entry point is called with an upper bound, the       *)
(* IDSolver solves each agent and merges conflicting groups; every         *)
(* iteration of the EPEAStar main loop is a step.                          *)

MaxBound == 4       \* largest plain upper bound handed to an entry point
MaxF == 6           \* largest f of a node that is expanded

BoundChoices == {None, <<Inf>>} \cup { <<b>> : b \in 0..MaxBound }

Init ==
    /\ pc = "main"
    /\ InitProblem
    /\ upper_bound \in BoundChoices
    /\ max_value = <<"StatisticTracker">>   \* the fourth positional argument
    /\ self_agents = agents
    /\ idx = 0
    /\ groups = None
    /\ total_cost = 0
    /\ cost = 0
    /\ paths = <<>>
    /\ path_set = {}
    /\ result = None
    /\ NoSearch
    /\ NoFinder
    /\ NoWalk

solve_subroutine ==
    /\ pc = "main"
    /\ upper_bound' =
          IF upper_bound = None \/ upper_bound[1] = 0
          THEN <<Plus(Inf, 1)>>
          ELSE <<Plus(Plus(upper_bound[1], Len(agents)), 1)>>
    /\ pc' = "facade"
    /\ UNCHANGED <<max_value, self_agents, idx, groups, total_cost, cost, paths, result, path_set>>
    /\ UNCHANGED <<finderVars, problemVars, walkVars, searchVars>>

\* HeuristicMatchingSolver.solve, into IDSolver.solve up to its for loop
HeuristicMatchingSolverSolve ==
    /\ pc \in {"main", "facade"}
    /\ max_value' = upper_bound
    /\ groups' = <<>>
    /\ total_cost' = StateHeuristic(heuristic, agents)
    /\ idx' = 1
    /\ pc' = "for"
    /\ UNCHANGED <<upper_bound, self_agents, cost, paths, result, path_set>>
    /\ UNCHANGED <<finderVars, problemVars, walkVars, searchVars>>

\* IDSolver.solve, the head of the for loop: the agent's search is set up
ForAgent ==
    /\ pc = "for"
    /\ idx <= Len(agents)
    /\ LET agent == agents[idx]
           less == total_cost - heuristic[agent.color][agent.coord]
       IN /\ self_agents' = <<agent>>
          /\ total_cost' = less
          /\ IF max_value = None
             THEN /\ pc' = "TypeError"     \* None - total_cost
                  /\ UNCHANGED searchVars
             ELSE /\ StartSearch(<<agent>>, Minus(max_value[1], less))
                  /\ pc' = "search"
    /\ UNCHANGED <<upper_bound, max_value, idx, groups, cost, paths, result, path_set>>
    /\ UNCHANGED <<finderVars, problemVars, walkVars>>

\* EPEAStar main loop: the node popped is solved
EPEAStarGoal ==
    /\ pc = "search"
    /\ \E n \in Best(open) :
         /\ is_solved(grid, n.state)
         /\ solution' = <<Reconstruct(n), n.cost>>
         /\ open' = open \ {n}
    /\ pc' = "returned"
    /\ UNCHANGED <<closed, max_cost>>
    /\ UNCHANGED <<finderVars, problemVars, walkVars, idVars>>

\* EPEAStar main loop: the node popped is expanded and re-inserted
EPEAStarExpand ==
    /\ pc = "search"
    /\ \E n \in Best(open) :
         /\ ~is_solved(grid, n.state)
         /\ F(n) <= MaxF
         /\ LET e == expand(grid, heuristic, osf, n)
                fresh == Fresh(e.children, closed)
                again == IF e.next_value < Inf
                         THEN {[n EXCEPT !.delta_f = e.next_value]} ELSE {}
            IN /\ open' = Enqueue(open \ {n}, fresh \cup again, max_cost)
               /\ closed' = Record(closed, fresh)
    /\ UNCHANGED <<pc, max_cost, solution>>
    /\ UNCHANGED <<finderVars, problemVars, walkVars, idVars>>

\* EPEAStar main loop: the open set is empty
EPEAStarFail ==
    /\ pc = "search"
    /\ open = {}
    /\ solution' = None
    /\ pc' = "returned"
    /\ UNCHANGED <<open, closed, max_cost>>
    /\ UNCHANGED <<finderVars, problemVars, walkVars, idVars>>

\* IDSolver.solve, the rest of the for loop body
ForReturn ==
    /\ pc = "returned"
    /\ idx <= Len(agents)
    /\ IF solution = None
       THEN /\ result' = None
            /\ pc' = "done"
            /\ UNCHANGED <<total_cost, groups, paths, path_set, idx>>
       ELSE /\ path_set' = update(path_set, solution[1])
            /\ total_cost' = total_cost + solution[2]
            /\ groups' = Append(groups, <<self_agents, solution[2]>>)
            /\ paths' = Append(paths, solution[1][1])
            /\ idx' = idx + 1
            /\ result' = result
            /\ pc' = "for"
    /\ UNCHANGED <<upper_bound, max_value, self_agents, cost>>
    /\ UNCHANGED <<finderVars, problemVars, walkVars, searchVars>>

\* IDSolver.solve, after the for loop
ForEnd ==
    /\ pc = "for"
    /\ idx > Len(agents)
    /\ cost' = total_cost
    /\ pc' = "while"
    /\ UNCHANGED <<upper_bound, max_value, self_agents, idx, groups, total_cost, paths, result, path_set>>
    /\ UNCHANGED <<finderVars, problemVars, walkVars, searchVars>>

\* the conflict loop finds a conflict: merge_groups up to the search
merge_groups ==
    /\ pc = "while"
    /\ find_conflict(paths) # None
    /\ LET a == find_conflict(paths)[1]
           b == find_conflict(paths)[2]
           group_a_id == Locate(groups, a, b, a)
           group_b_id == Locate(groups, a, b, b)
       IN IF group_a_id = 0 \/ group_b_id = 0
          THEN /\ pc' = "AssertionError"
               /\ UNCHANGED <<cost, self_agents, searchVars>>
          ELSE LET less == CostWithout(cost, groups[group_a_id], groups[group_b_id])
                   new_agents == NewAgents(groups[group_a_id], groups[group_b_id])
               IN /\ cost' = less
                  /\ self_agents' = new_agents
                  /\ StartSearch(new_agents, Minus(max_value[1], less))
                  /\ pc' = "search"
    /\ UNCHANGED <<upper_bound, max_value, idx, groups, total_cost, paths, result, path_set>>
    /\ UNCHANGED <<finderVars, problemVars, walkVars>>

\* merge_groups after the search, and the return into the conflict loop
MergeReturn ==
    /\ pc = "returned"
    /\ idx > Len(agents)
    /\ IF solution = None
       THEN /\ result' = None
            /\ pc' = "done"
            /\ UNCHANGED <<groups, cost, paths, path_set>>
       ELSE LET a == find_conflict(paths)[1]
                b == find_conflict(paths)[2]
                group_a_id == Locate(groups, a, b, a)
                group_b == groups[Locate(groups, a, b, b)]
            IN /\ path_set' = update(path_set, solution[1])
               /\ groups' = Remove([groups EXCEPT ![group_a_id] =
                                       <<self_agents, solution[2]>>], group_b)
               /\ cost' = cost + solution[2]
               /\ paths' = AssignPaths(paths, self_agents, solution[1])
               /\ result' = result
               /\ pc' = "while"
    /\ UNCHANGED <<upper_bound, max_value, self_agents, idx, total_cost>>
    /\ UNCHANGED <<finderVars, problemVars, walkVars, searchVars>>

\* the conflict loop finds no conflict: IDSolver.solve returns
WhileEnd ==
    /\ pc = "while"
    /\ find_conflict(paths) = None
    /\ result' = <<paths, cost>>
    /\ pc' = "done"
    /\ UNCHANGED <<upper_bound, max_value, self_agents, idx, groups, total_cost, cost, paths, path_set>>
    /\ UNCHANGED <<finderVars, problemVars, walkVars, searchVars>>

Next ==
    \/ solve_subroutine
    \/ HeuristicMatchingSolverSolve
    \/ ForAgent
    \/ EPEAStarGoal
    \/ EPEAStarExpand
    \/ EPEAStarFail
    \/ ForReturn
    \/ ForEnd
    \/ merge_groups
    \/ MergeReturn
    \/ WhileEnd

Spec == Init /\ [][Next]_vars

----------------------------------------------------------------------------
(* Properties of the OperatorFinder run *)

RECURSIVE RowChoices(_, _)
\* the choices of one row (index) per agent, for the first n agents
RowChoices(ops, n) ==
    IF n = 0 THEN {<<>>}
    ELSE { Append(c, k) : c \in RowChoices(ops, n - 1), k \in 1..Len(ops[n]) }

RECURSIVE ChoiceSum(_, _, _)
ChoiceSum(ops, c, n) ==
    IF n = 0 THEN 0 ELSE ChoiceSum(ops, c, n - 1) + ops[n][c[n]][2]

ChoiceBundles(ops, c) == [i \in 1..Len(c) |-> ops[i][c[i]][1]]

Occurrences(seq, x) == Cardinality({ i \in 1..Len(seq) : seq[i] = x })

SetMin(S) == CHOOSE x \in S : \A y \in S : x <= y

SetMax(S) == CHOOSE x \in S : \A y \in S : x >= y

\* C7: after find_operators(0, [], 0), self.operators holds exactly the
\* one-row-per-agent choices whose df values sum to the target: each such
\* choice once, and nothing else.
C7_ExactlyTheChoicesOfSumT ==
    pc = "found" =>
      LET ops == agent_operators
          all == RowChoices(ops, Len(ops))
          found == finder[1].operators
      IN /\ \A c \in all :
              Occurrences(found, ChoiceBundles(ops, c)) =
                 IF ChoiceSum(ops, c, Len(ops)) = target_sum THEN 1 ELSE 0
         /\ \A i \in 1..Len(found) : \E c \in all : found[i] = ChoiceBundles(ops, c)

C7_Witness ==
    /\ pc = "found"
    /\ Len(finder[1].operators) >= 2
    /\ \E c \in RowChoices(agent_operators, NumOps) :
          ChoiceSum(agent_operators, c, NumOps) < target_sum
    /\ \E c \in RowChoices(agent_operators, NumOps) :
          ChoiceSum(agent_operators, c, NumOps) > target_sum

\* C8: after find_operators(0, [], 0), next_target_value is the smallest sum
\* of one-row-per-agent df values strictly greater than the target, or
\* infinity when there is none; and the assertion
\* next_target_value > target_sum held each time it was evaluated.
C8_NextTargetIsLeastLargerSum ==
    pc = "found" =>
      LET ops == agent_operators
          above == { ChoiceSum(ops, c, Len(ops)) : c \in RowChoices(ops, Len(ops)) }
                     \cap { s \in 0..Inf : s > target_sum }
      IN /\ finder[1].next_target_value = IF above = {} THEN Inf ELSE SetMin(above)
         /\ finder[1].assert_ok

C8_Witness ==
    /\ pc = "found"
    /\ finder[1].asserts >= 2
    /\ finder[1].next_target_value < Inf
    /\ Len(finder[1].operators) >= 1
    /\ Len(targets) >= 2

\* C9: every table made by sorting and collapsing has its rows in
\* non-decreasing df order, the first row holding the least and the last row
\* the greatest df of the cell's moves.
C9_OsfRowsSorted ==
    pc # "tables" =>
      \A a \in 1..NumOps :
        LET t == agent_operators[a]
            dfs == { expanded[a][k][2] : k \in 1..Len(expanded[a]) } \cup {1}
        IN /\ \A i \in 1..(Len(t) - 1) : t[i][2] <= t[i + 1][2]
           /\ t[1][2] = SetMin(dfs)
           /\ t[Len(t)][2] = SetMax(dfs)

C9_Witness ==
    /\ pc = "find"
    /\ \E a \in 1..NumOps :
         /\ Len(expanded[a]) >= 1
         /\ expanded[a][Len(expanded[a])][2] > 1
         /\ agent_operators[a][1] = <<(<<WAIT>>), 1>>
         /\ Len(agent_operators[a]) >= 2

\* the sweep of one parent is over: the last call returned infinity
SweepDone == pc = "found" /\ finder[1].next_target_value = Inf

\* one direction per agent, each from a bundle of the agent's OSF table
FromTables(joint) ==
    \A i \in 1..NumOps :
       \E k \in 1..Len(agent_operators[i]) : \E j \in 1..Len(agent_operators[i][k][1]) :
          agent_operators[i][k][1][j] = joint[i]

SweepSafe ==
    pc \in {"find", "found"} =>
       /\ Len(targets) >= 1 => targets[1] = 0
       /\ \A i \in 1..(Len(targets) - 1) : targets[i] < targets[i + 1]
       /\ pc = "found" => finder[1].next_target_value > target_sum
       /\ \A joint \in JointOperators(NumOps) :
             /\ generated[joint] <= 1
             /\ generated[joint] = 1 => FromTables(joint)
       /\ SweepDone =>
             \A joint \in JointOperators(NumOps) :
                FromTables(joint) => generated[joint] = 1

\* C22: for one parent, calling get_children with target 0 and then with each
\* next value returned, the targets strictly increase, a call returns
\* infinity after finitely many calls, and by then every joint operator made
\* of one direction per agent from its OSF table was generated exactly once.
C22_SweepGeneratesEachOperatorOnce == [](SweepSafe) /\ <>SweepDone

\* a finished sweep of three calls or more, the first of which found nothing,
\* over tables with a bundle of two directions and a table of two bundles
C22_Witness ==
    /\ SweepDone
    /\ Len(targets) >= 3
    /\ ChoiceSum(agent_operators, [i \in 1..NumOps |-> 1], NumOps) > 0
    /\ \E a \in 1..NumOps : \E k \in 1..Len(agent_operators[a]) :
          Len(agent_operators[a][k][1]) >= 2
    /\ \E a \in 1..NumOps : Len(agent_operators[a]) >= 2

----------------------------------------------------------------------------
(* Properties of the node walk *)

RECURSIVE SeqSum(_, _)
SeqSum(f, n) == IF n = 0 THEN 0 ELSE SeqSum(f, n - 1) + f[n]

\* C3: in a solved node reached from the root (g = 0, waiting costs 0) by
\* get_child steps, g is the sum over the agents of the step at which the
\* agent last arrived on the cell it ends on (0 if it never moved), and each
\* waiting_cost is the final time minus that arrival: it is not part of g.
C3_SolvedCostIsSumOfArrivals ==
    (pc = "walk" /\ is_solved(grid, node.state)) =>
       /\ node.cost = SeqSum(arrived, Len(arrived))
       /\ \A i \in 1..Len(node.state) :
             node.state[i].waiting_cost = time - arrived[i]

C3_Witness ==
    /\ pc = "walk"
    /\ is_solved(grid, node.state)
    /\ time = 3
    /\ Len(node.state) = 2
    /\ arrived[1] = 3
    /\ arrived[2] = 1
    /\ on_goal(grid, agents[1])

\* the contribution of agent i to g in a step of the walk, read off the two
\* nodes: the agent waited iff it kept its cell
StepCharge(i) ==
    LET agent == node.state[i]
        waited == node'.state[i].coord = agent.coord
    IN IF on_goal(grid, agent) /\ waited THEN 0
       ELSE IF on_goal(grid, agent) THEN agent.waiting_cost + 1
       ELSE 1

\* C11: in every get_child step an agent on a matching goal that waits gets
\* waiting_cost + 1 and adds nothing to g, one that leaves the goal adds
\* waiting_cost + 1 and gets waiting_cost 0, an agent off a matching goal
\* adds 1 and gets waiting_cost 0; g grows by the sum of these, and color,
\* identifier and position in the state are kept.
C11_GetChildAccounting ==
    [][ pc = "walk" =>
          /\ Len(node'.state) = Len(node.state)
          /\ \A i \in 1..Len(node.state) :
               /\ node'.state[i].color = node.state[i].color
               /\ node'.state[i].identifier = node.state[i].identifier
               /\ node'.state[i].waiting_cost =
                     IF on_goal(grid, node.state[i])
                        /\ node'.state[i].coord = node.state[i].coord
                     THEN node.state[i].waiting_cost + 1
                     ELSE 0
          /\ node'.cost = node.cost
                + SeqSum([i \in 1..Len(node.state) |-> StepCharge(i)], Len(node.state))
      ]_vars

\* an agent that waited on its start goal and left it at the third step, next
\* to one that waited on its goal throughout
C11_Witness ==
    /\ pc = "walk"
    /\ time = 3
    /\ Len(node.state) = 2
    /\ on_goal(grid, agents[1])
    /\ arrived[1] = 3
    /\ ~on_goal(grid, node.state[1])
    /\ node.state[2].waiting_cost = 3
    /\ node.cost = 3

\* C14: a get_child step never lowers g + h, along any sequence of joint
\* operators taken from the OSF tables.
C14_FNeverDecreases ==
    [][ pc = "walk" => node'.cost + node'.heuristic >= node.cost + node.heuristic ]_vars

\* a walk that came closer to the goals and also paid more than it gained
C14_Witness ==
    /\ pc = "walk"
    /\ time = 3
    /\ node.heuristic < StateHeuristic(heuristic, agents)
    /\ node.cost + node.heuristic > StateHeuristic(heuristic, agents)
    /\ \E i \in 1..Len(node.state) : node.state[i].waiting_cost > 0

\* C20: from a root whose agents stand on cells of finite heuristic, every
\* node of a walk has its agents on cells of the grid that are no walls and
\* have a finite heuristic, so no agent's OSF table is empty.
C20_AgentsStayOnLiveCells ==
    pc = "walk" =>
       \A i \in 1..Len(node.state) :
          LET agent == node.state[i]
          IN /\ agent.coord \in GridCells(grid) \ grid.walls
             /\ heuristic[agent.color][agent.coord] < Inf
             /\ Len(osf[agent.color][agent.coord]) >= 1

\* a walk of three steps beside a wall, an agent stepping at the last one
C20_Witness ==
    /\ pc = "walk"
    /\ grid.walls # {}
    /\ time = 3
    /\ \E i \in 1..Len(node.state) :
          /\ arrived[i] = 3
          /\ \E w \in grid.walls :
                (w[1] - node.state[i].coord[1]) * (w[1] - node.state[i].coord[1])
                + (w[2] - node.state[i].coord[2]) * (w[2] - node.state[i].coord[2]) = 1

\* the cell next to a cell in a direction, and whether an agent may stand there
Neighbour(c, d) ==
    CASE d = "N" -> <<c[1], c[2] - 1>>
      [] d = "E" -> <<c[1] + 1, c[2]>>
      [] d = "S" -> <<c[1], c[2] + 1>>
      [] d = "W" -> <<c[1] - 1, c[2]>>

FreeCell(c) == c \in GridCells(grid) \ grid.walls

\* the places <<bundle, position>> of a table that hold the direction
PlacesOf(table, d) ==
    { kj \in (1..Len(table)) \X (1..5) :
        /\ kj[2] <= Len(table[kj[1]][1])
        /\ table[kj[1]][1][kj[2]] = d }

\* C21: for every color and every cell of finite heuristic, the bundles of
\* the cell's OSF table hold WAIT and the moves to a traversable neighbour,
\* each once and nothing else; WAIT is in the bundle of df 1, a move in the
\* bundle of df 1 + H[neighbour] - H[cell], and no two bundles have the same df.
C21_OsfBundlesPartitionDirections ==
    pc = "walk" =>
      \A color \in GridColors(grid) : \A c \in GridCells(grid) :
        heuristic[color][c] < Inf =>
          LET table == osf[color][c]
          IN /\ Cardinality(PlacesOf(table, WAIT)) = 1
             /\ \A d \in {"N", "E", "S", "W"} :
                   Cardinality(PlacesOf(table, d)) =
                      IF FreeCell(Neighbour(c, d)) THEN 1 ELSE 0
             /\ \A k \in 1..Len(table) :
                   /\ Len(table[k][1]) \in 1..5
                   /\ \A j \in 1..Len(table[k][1]) :
                        LET d == table[k][1][j]
                        IN /\ d \in {WAIT, "N", "E", "S", "W"}
                           /\ table[k][2] =
                                IF d = WAIT THEN 1
                                ELSE 1 + heuristic[color][Neighbour(c, d)] - heuristic[color][c]
             /\ \A k, l \in 1..Len(table) : k # l => table[k][2] # table[l][2]

\* a walk over the tables of a grid with a wall: a cell beside the wall with
\* a move bundle and the WAIT bundle apart, and a cell whose move shares the
\* bundle of WAIT
C21_Witness ==
    /\ pc = "walk"
    /\ grid.walls # {}
    /\ time >= 1
    /\ \E color \in GridColors(grid) : \E c \in GridCells(grid) :
          /\ heuristic[color][c] < Inf
          /\ \E d \in {"N", "E", "S", "W"} : Neighbour(c, d) \in grid.walls
          /\ Len(osf[color][c]) = 2
    /\ \E color \in GridColors(grid) : \E c \in GridCells(grid) :
          /\ heuristic[color][c] < Inf
          /\ \E k \in 1..Len(osf[color][c]) : Len(osf[color][c][k][1]) >= 2

----------------------------------------------------------------------------
(* The least cost of a conflict-free plan, computed on its own: a plan is  *)
(* a joint walk in which every agent at some step settles for good on a    *)
(* goal of its color; an agent's path cost is the step at which it         *)
(* settles, so every step costs the number of agents not yet settled.      *)

Everyone == 1..Len(agents)

OnOwnGoal(pos, i) ==
    \E k \in 1..Len(grid.goals) :
       /\ <<grid.goals[k].x, grid.goals[k].y>> = pos[i]
       /\ grid.goals[k].color = agents[i].color

\* whoever stands on a goal of its color may settle there
Settle(plans) ==
    UNION { { [pos |-> s.pos, settled |-> s.settled \cup more] :
                more \in SUBSET { i \in Everyone : OnOwnGoal(s.pos, i) } } :
            s \in plans }

Reach(c) ==
    { c } \cup { d \in GridCells(grid) \ grid.walls :
                  (d[1] - c[1]) * (d[1] - c[1]) + (d[2] - c[2]) * (d[2] - c[2]) = 1 }

\* one time step: the settled stay, the others wait or move to a neighbour
\* cell, no two end on one cell and no two swap cells
StepFrom(s) ==
    { [pos |-> to, settled |-> s.settled] :
        to \in { f \in [Everyone -> GridCells(grid)] :
                   /\ \A i \in Everyone :
                        IF i \in s.settled THEN f[i] = s.pos[i]
                        ELSE f[i] \in Reach(s.pos[i])
                   /\ \A i, j \in Everyone :
                        i # j => /\ f[i] # f[j]
                                 /\ ~(f[i] = s.pos[j] /\ f[j] = s.pos[i]) } }

RECURSIVE Layers(_)
\* Layers(c)[k + 1]: what a plan can have reached at cost exactly k, k <= c
Layers(c) ==
    IF c = 0
    THEN <<Settle({[pos |-> [i \in Everyone |-> agents[i].coord], settled |-> {}]})>>
    ELSE LET before == Layers(c - 1)
             stepped == UNION { StepFrom(s) :
                          s \in UNION { { r \in before[c - k + 1] :
                                            Len(agents) - Cardinality(r.settled) = k } :
                                        k \in 1..MinNum(c, Len(agents)) } }
         IN Append(before, Settle(stepped))

\* the least cost of a plan, Inf if there is none of cost MaxF or less
Optimum ==
    LET layers == Layers(MaxF)
        costs == { c \in 0..MaxF : \E s \in layers[c + 1] : s.settled = Everyone }
    IN IF costs = {} THEN Inf ELSE SetMin(costs)

----------------------------------------------------------------------------
(* Properties of the solver run *)

Returned == pc = "done" /\ result # None

\* the cell of a returned path at step t, the path extended by its last cell
Cell(i, t) ==
    LET coords == result[1][i].coords
    IN IF t <= Len(coords) THEN coords[t] ELSE coords[Len(coords)]

Longest == SetMax({ Len(result[1][i].coords) : i \in 1..Len(result[1]) })

Merges == Len(agents) - Len(groups)

\* C1: a run without a cost bound (max_value is +inf) returns the least cost
\* of a conflict-free plan that ends every agent on a goal of its color.
C1_ReturnedCostIsOptimal ==
    (pc = "done" /\ max_value = <<Inf>> /\ Optimum < Inf) =>
       (result # None /\ result[2] = Optimum)

\* C2: when IDSolver.solve returns paths, no two of them are on one cell at
\* one step or swap cells between two steps, a shorter path staying on its
\* last cell; also after merges.
C2_ReturnedPathsConflictFree ==
    Returned =>
       \A i, j \in 1..Len(result[1]) :
          i < j => \A t \in 1..Longest :
                      /\ Cell(i, t) # Cell(j, t)
                      /\ ~(Cell(i, t) = Cell(j, t + 1) /\ Cell(j, t) = Cell(i, t + 1))

C2_Witness ==
    /\ Returned
    /\ Len(agents) = 3
    /\ Merges = 2
    /\ Longest >= 3

\* C4: with C* the least cost of a plan, the run with cost bound C* - 1
\* returns None and the run with cost bound C* returns a solution of cost C*.
C4_BoundAtOptimumSolves ==
    (pc = "done" /\ max_value # None /\ Optimum < Inf) =>
       /\ max_value[1] = Optimum - 1 => result = None
       /\ max_value[1] = Optimum => (result # None /\ result[2] = Optimum)

\* C5: when IDSolver.solve returns paths for agents 0..n-1, paths[i] is the
\* path stamped with identifier i and starts on agent i's start cell,
\* whatever merges took place.
C5_PathsIndexedByIdentifier ==
    Returned =>
       /\ Len(result[1]) = Len(agents)
       /\ \A k \in 1..Len(agents) :
             /\ result[1][k].identifier = agents[k].identifier
             /\ result[1][k].identifier = k - 1
             /\ result[1][k].coords[1] = agents[k].coord

C5_Witness ==
    /\ Returned
    /\ Merges = 2
    /\ groups[1][1][1].identifier = 1
    /\ groups[1][1][3].identifier = 2

\* C6: when paths are returned, every path ends on a goal whose color is
\* the color of the path's agent, also a path replaced during a merge.
C6_PathsEndOnOwnColorGoal ==
    Returned =>
       \A k \in 1..Len(result[1]) :
          LET path == result[1][k]
              last == path.coords[Len(path.coords)]
          IN \E a \in 1..Len(agents), goal \in 1..Len(grid.goals) :
                /\ agents[a].identifier = path.identifier
                /\ grid.goals[goal].color = agents[a].color
                /\ <<grid.goals[goal].x, grid.goals[goal].y>> = last

C6_Witness ==
    /\ Returned
    /\ Merges >= 1
    /\ \E k \in 1..Len(result[1]) :
          /\ \E i \in 1..Len(groups) : Len(groups[i][1]) >= 2 /\
                \E m \in 1..Len(groups[i][1]) : groups[i][1][m].identifier = k - 1
          /\ Len(result[1][k].coords) >= 3
          /\ result[1][k].coords[1] # result[1][k].coords[Len(result[1][k].coords)]

\* a child in which no two agents share a cell and no two agents exchanged
\* their cells
Admissible(parent, child) ==
    /\ Cardinality({ child.state[i].coord : i \in 1..Len(child.state) }) = Len(child.state)
    /\ \A i, j \in 1..Len(parent.state) :
          i # j => ~(/\ child.state[i].coord = parent.state[j].coord
                     /\ child.state[j].coord = parent.state[i].coord)

\* the nodes the search may expand next
Expandable == IF pc = "search" THEN { n \in Best(open) : ~is_solved(grid, n.state) } ELSE {}

\* C12: expand returns exactly the children generated for the node's delta_f
\* that have no vertex and no edge conflict, and the next delta_f unchanged.
C12_ExpandKeepsExactlyAdmissible ==
    \A n \in Expandable :
       LET got == get_children(grid, heuristic, osf, n, n.delta_f)
           e == expand(grid, heuristic, osf, n)
       IN /\ e.children = { child \in got.children : Admissible(n, child) }
          /\ e.next_value = got.next_value

\* a node whose children include one kept, one with two agents on a cell,
\* and one with two agents exchanging cells
C12_Witness ==
    \E n \in Expandable :
       LET got == get_children(grid, heuristic, osf, n, n.delta_f)
           e == expand(grid, heuristic, osf, n)
       IN /\ Len(n.state) = 3
          /\ e.children # {}
          /\ \E child \in got.children : VertexConflict(child)
          /\ \E child \in got.children : ~VertexConflict(child) /\ EdgeConflict(n, child)
          /\ e.next_value < Inf

\* C13: every child built by get_children(parent, v) has g + h equal to the
\* parent's g + h plus v, also when agents of the parent stand on a matching
\* goal with banked waiting_cost.
C13_ChildSurplusIsTarget ==
    \A n \in Expandable :
       \A child \in get_children(grid, heuristic, osf, n, n.delta_f).children :
          child.cost + child.heuristic = n.cost + n.heuristic + n.delta_f

AfterFirstPhase == idx > Len(agents)

InMerge == pc \in {"search", "returned"} /\ AfterFirstPhase

Identifiers(ags) == { ags[i].identifier : i \in 1..Len(ags) }

\* the indices of the groups that hold the identifier
GroupsOf(identifier) ==
    { k \in 1..Len(groups) : identifier \in Identifiers(groups[k][1]) }

\* C15: while EPEAStar runs on a merged group, the Path Set holds no path
\* of an agent of that group: the paths of the two groups were removed.
C15_MergedSearchSeesNoOwnPath ==
    InMerge => \A p \in path_set : p.identifier \notin Identifiers(self_agents)

\* C16: after the per-agent phase every agent identifier is in exactly one
\* group, in exactly one place, and the groups hold agents only.
C16_GroupsPartitionAgents ==
    AfterFirstPhase =>
       /\ \A a \in 1..Len(agents) :
             Cardinality({ km \in (1..Len(groups)) \X (1..Len(agents)) :
                             /\ km[2] <= Len(groups[km[1]][1])
                             /\ groups[km[1]][1][km[2]] = agents[a] }) = 1
       /\ \A k \in 1..Len(groups) :
             /\ Len(groups[k][1]) >= 1
             /\ \A m \in 1..Len(groups[k][1]) :
                   \E a \in 1..Len(agents) : groups[k][1][m] = agents[a]

C16_Witness ==
    /\ pc = "while"
    /\ Len(agents) = 3
    /\ Len(groups) = 1
    /\ find_conflict(paths) = None

\* C17: a successful merge lowers the number of groups by exactly one and
\* nothing else changes the groups once the conflict loop runs; a merge
\* starts only with two groups or more, so there are at most n - 1 merges;
\* the loop ends with the paths when there is no conflict and with None
\* when a search returned None.
C17_MergeLowersGroupCount ==
    [][ AfterFirstPhase =>
          /\ (pc = "returned" /\ solution # None) =>
                (Len(groups') = Len(groups) - 1 /\ Len(groups') >= 1 /\ pc' = "while")
          /\ (pc = "returned" /\ solution = None) => (pc' = "done" /\ result' = None)
          /\ pc # "returned" => groups' = groups
          /\ (pc = "while" /\ pc' = "search") => Len(groups) >= 2
          /\ (pc = "while" /\ pc' # "search") => (pc' = "done" /\ result' = <<paths, cost>>)
      ]_vars

\* a bounded run that merged twice and then returned the paths
C17_Witness ==
    /\ pc = "done"
    /\ result # None
    /\ Len(agents) = 3
    /\ Len(groups) = 1
    /\ max_value[1] < Inf

RECURSIVE GroupCosts(_, _)
\* the sum of the costs recorded with the first k groups that keep
GroupCosts(keep, k) ==
    IF k = 0 THEN 0
    ELSE GroupCosts(keep, k - 1) + (IF k \in keep THEN groups[k][2] ELSE 0)

\* C18: whenever find_conflict is evaluated, self.cost is the sum of the
\* costs recorded with the groups, and the bound of the search of a merged
\* group is max_value minus the costs of the groups that are not merged.
C18_CostIsSumOfGroupCosts ==
    /\ (pc = "while") => cost = GroupCosts(1..Len(groups), Len(groups))
    /\ (pc = "search" /\ AfterFirstPhase) =>
          max_cost = Minus(max_value[1],
                           GroupCosts({ k \in 1..Len(groups) :
                                          Identifiers(groups[k][1]) \cap
                                             Identifiers(self_agents) = {} },
                                      Len(groups)))

\* a bounded merge of two of three groups, the third having a cost
C18_Witness ==
    /\ pc = "search"
    /\ AfterFirstPhase
    /\ Len(groups) = 3
    /\ max_value[1] < Inf
    /\ open # {}
    /\ \E k \in 1..Len(groups) :
          /\ Identifiers(groups[k][1]) \cap Identifiers(self_agents) = {}
          /\ groups[k][2] >= 1

\* C19: the identifiers find_conflict returns are in two different groups,
\* and the assertions of merge_groups never fail.
C19_ConflictsAreBetweenGroups ==
    /\ pc # "AssertionError"
    /\ (pc = "while" /\ find_conflict(paths) # None) =>
          LET a == find_conflict(paths)[1]
              b == find_conflict(paths)[2]
          IN /\ a # b
             /\ GroupsOf(a) \cap GroupsOf(b) = {}
             /\ Locate(groups, a, b, a) # 0
             /\ Locate(groups, a, b, b) # 0

\* a conflict between a merged group and a third agent
C19_Witness ==
    /\ pc = "while"
    /\ find_conflict(paths) # None
    /\ Len(agents) = 3
    /\ Len(groups) = 2

\* C10: a solve without an upper bound behaves as one with bound +inf: it
\* does not fail for want of the bound.
C10_AbsentBoundNeverFails ==
    upper_bound = None => pc # "TypeError"

====
